---- MODULE Spec2Model ----
(***************************************************************************)
(* The metrics reporting bridge of the Go SDK harness (monitoring.go):     *)
(* the short id cache, the monitoring() reporting pass over a plan's       *)
(* metric store, and the shortIdsToInfos batch lookup, run by concurrent   *)
(* callers that share the process-wide cache and its mutex.                *)
(***************************************************************************)
EXTENDS Integers, Sequences, FiniteSets, TLC

(***************************************************************************)
(* Bounds of the model.                                                    *)
(***************************************************************************)
\* Largest number of short ids in one shortIdsToInfos request.
MaxReq == 2

\* The goroutines that may call monitoring() and shortIdsToInfos().
Procs == {"r1", "r2"}
\* The plans (bundles) of the process; each owns at most one metric store.
Plans == {"A", "B"}

\* No caller, no plan.
Nil == "nil"
\* A nil pointer, map or interface (None) and a non-nil one (Some).
None == [some |-> FALSE]
Some(x) == [some |-> TRUE, val |-> x]

(***************************************************************************)
(* The URN and wire type tables.                                           *)
(***************************************************************************)
sUrns ==
  << "beam:metric:user:sum_int64:v1",
     "beam:metric:user:sum_double:v1",
     "beam:metric:user:distribution_int64:v1",
     "beam:metric:user:distribution_double:v1",
     "beam:metric:user:latest_int64:v1",
     "beam:metric:user:latest_double:v1",
     "beam:metric:user:top_n_int64:v1",
     "beam:metric:user:top_n_double:v1",
     "beam:metric:user:bottom_n_int64:v1",
     "beam:metric:user:bottom_n_double:v1",
     "beam:metric:element_count:v1",
     "beam:metric:sampled_byte_size:v1",
     "beam:metric:pardo_execution_time:start_bundle_msecs:v1",
     "beam:metric:pardo_execution_time:process_bundle_msecs:v1",
     "beam:metric:pardo_execution_time:finish_bundle_msecs:v1",
     "beam:metric:ptransform_execution_time:total_msecs:v1",
     "beam:metric:ptransform_progress:remaining:v1",
     "beam:metric:ptransform_progress:completed:v1",
     "TestingSentinelUrn" >>

\* mUrn values (iota): an index into sUrns, counted from 0.
urnUserSumInt64 == 0
urnUserSumFloat64 == 1
urnUserDistInt64 == 2
urnUserDistFloat64 == 3
urnUserLatestMsInt64 == 4
urnUserLatestMsFloat64 == 5
urnUserTopNInt64 == 6
urnUserTopNFloat64 == 7
urnUserBottomNInt64 == 8
urnUserBottomNFloat64 == 9
urnElementCount == 10
urnSampledByteSize == 11
urnStartBundle == 12
urnProcessBundle == 13
urnFinishBundle == 14
urnTransformTotalTime == 15
urnProgressRemaining == 16
urnProgressCompleted == 17
urnTestSentinel == 18

sTypes ==
  << "beam:metrics:sum_int64:v1",
     "beam:metrics:sum_double:v1",
     "beam:metrics:distribution_int64:v1",
     "beam:metrics:distribution_double:v1",
     "beam:metrics:latest_int64:v1",
     "beam:metrics:latest_double:v1",
     "beam:metrics:top_n_int64:v1",
     "beam:metrics:top_n_double:v1",
     "beam:metrics:bottom_n_int64:v1",
     "beam:metrics:bottom_n_double:v1",
     "beam:metrics:monitoring_table:v1",
     "beam:metrics:progress:v1",
     "TestingSentinelType" >>

\* mType values (iota): an index into sTypes, counted from 0.
typeSumInt64 == 0
typeSumFloat64 == 1
typeDistInt64 == 2
typeDistFloat64 == 3
typeLatestMsInt64 == 4
typeLatestMsFloat64 == 5
typeTopNInt64 == 6
typeTopNFloat64 == 7
typeBottomNInt64 == 8
typeBottomNFloat64 == 9
typeMonitoringTable == 10
typeProgress == 11
typeTestSentinel == 12

\* A call returns a value or panics with one.
Returns(v) == [panics |-> FALSE, val |-> v]
Panics(v) == [panics |-> TRUE, val |-> v]

\* sUrns[u] and sTypes[t] of the Go code (0-based slices).
UrnString(u) == sUrns[u + 1]
TypeString(t) == sTypes[t + 1]

\* The value the default case of urnToType panics with: the message, which
\* ends in sUrns[u], or the runtime error of indexing sUrns out of range.
UnspecifiedType(u) ==
  IF u + 1 \in DOMAIN sUrns
    THEN << "metric urn without specified type", sUrns[u + 1] >>
    ELSE << "runtime error: index out of range", u, Len(sUrns) >>

\* urnToType: the switch, case by case; the default case panics.
urnToType(u) ==
  CASE u \in {urnUserSumInt64, urnElementCount, urnStartBundle,
              urnProcessBundle, urnFinishBundle, urnTransformTotalTime}
         -> Returns(typeSumInt64)
    [] u = urnUserSumFloat64 -> Returns(typeSumFloat64)
    [] u \in {urnUserDistInt64, urnSampledByteSize} -> Returns(typeDistInt64)
    [] u = urnUserDistFloat64 -> Returns(typeDistFloat64)
    [] u = urnUserLatestMsInt64 -> Returns(typeLatestMsInt64)
    [] u = urnUserLatestMsFloat64 -> Returns(typeLatestMsFloat64)
    [] u = urnUserTopNInt64 -> Returns(typeTopNInt64)
    [] u = urnUserTopNFloat64 -> Returns(typeTopNFloat64)
    [] u = urnUserBottomNInt64 -> Returns(typeSumInt64)
    [] u = urnUserBottomNFloat64 -> Returns(typeBottomNFloat64)
    [] u \in {urnProgressRemaining, urnProgressCompleted} -> Returns(typeProgress)
    [] u = urnTestSentinel -> Returns(typeTestSentinel)
    [] OTHER -> Panics(UnspecifiedType(u))

(***************************************************************************)
(* Metric identities, metric values and the store of a plan.               *)
(***************************************************************************)
\* metrics.Labels: the transform, namespace and name of a user metric.
Label(t, ns, n) == [transform |-> t, namespace |-> ns, name |-> n]

\* The labels bundles use; each of the last three differs from the first in
\* exactly one field.
L1 == Label("t1", "ns", "n")
L2 == Label("t2", "ns", "n")
L3 == Label("t1", "ns2", "n")
L4 == Label("t1", "ns", "n2")
LabelSet == {L1, L2, L3, L4}

\* A user metric a plan's pipeline declares: the store of the plan holds it
\* once the bundle has used it.
Declare(pl, l, kind) == [plan |-> pl, l |-> l, kind |-> kind]

\* The pipelines of the model.  Concurrent: two callers, two plans that share
\* one identity.  Wide: one caller, identities that differ in the URN only,
\* in the namespace only and in the name only.
Pipelines ==
  { [ callers |-> {"r1", "r2"},
      declared |-> { Declare("A", L1, "SumInt64"),
                     Declare("A", L2, "DistributionInt64"),
                     Declare("B", L1, "SumInt64") } ],
    [ callers |-> {"r1"},
      declared |-> { Declare("A", L1, "SumInt64"),
                     Declare("A", L3, "DistributionInt64"),
                     Declare("B", L1, "GaugeInt64"),
                     Declare("B", L4, "SumInt64") } ] }

\* The pipelines of the runs in which a collaborator may fail.  Two callers,
\* a counter and a gauge; one caller and a plan with two metrics.
FaultyPipelines ==
  { [ callers |-> {"r1", "r2"},
      declared |-> { Declare("A", L1, "SumInt64"),
                     Declare("B", L1, "GaugeInt64") } ],
    [ callers |-> {"r1"},
      declared |-> { Declare("A", L1, "SumInt64"),
                     Declare("A", L2, "DistributionInt64") } ] }

\* time.Time values of gauges: seconds and nanoseconds since the epoch, for a
\* time of the years 1 to 9999 (era "ce").  The seconds of a later time exceed
\* the integers of the model: such a time is told by its era alone.
Times == { [era |-> "ce", sec |-> 1, nsec |-> 5000000] }
FarTimes == { [era |-> "after", sec |-> 0, nsec |-> 0] }

\* The values a store hands to the three Extractor callbacks.
SumInt64Data == [kind : {"SumInt64"}, v : {7, 300}]
DistributionInt64Data ==
  [kind : {"DistributionInt64"}, count : {3}, sum : {30}, min : {5}, max : {15}]
GaugeInt64Data == [kind : {"GaugeInt64"}, v : {7}, t : Times \cup FarTimes]
MetricData == SumInt64Data \cup DistributionInt64Data \cup GaugeInt64Data

\* Progress snapshots a plan's data source reports (exec.ProgressReportSnapshot).
Snapshots ==
  [ID : {"t1", "src"}, Name : {"read"}, PID : {"pc1"}, Count : {42}]

\* shortKey as it would be if the key left the URN out.
shortKeyNoUrn(l, urn) == [Labels |-> l, Urn |-> urnUserSumInt64]

\* shortKey{l, urn}: the key of labels2ShortIds.
shortKey(l, urn) == [Labels |-> l, Urn |-> urn]

\* The URN each callback of the MonitoringInfo pass resolves its short id with.
UrnOfKind(kind) ==
  CASE kind = "SumInt64" -> urnUserSumInt64
    [] kind = "DistributionInt64" -> urnUserDistInt64
    [] kind = "GaugeInt64" -> urnUserLatestMsInt64

\* The wire type each callback writes literally into its record.
TypeOfKind(kind) ==
  CASE kind = "SumInt64" -> typeSumInt64
    [] kind = "DistributionInt64" -> typeDistInt64
    [] kind = "GaugeInt64" -> typeLatestMsInt64

userLabels(l) ==
  [PTRANSFORM |-> l.transform, NAMESPACE |-> l.namespace, NAME |-> l.name]

(***************************************************************************)
(* The payload codec.                                                      *)
(***************************************************************************)
\* coder.EncodeVarInt: base 128, least significant group first, the high bit
\* of a byte set when another byte follows; a negative int64 is encoded as
\* the uint64 of its two's complement, which takes ten bytes.
RECURSIVE VarUint(_)
VarUint(n) ==
  IF n < 128 THEN << n >> ELSE << 128 + (n % 128) >> \o VarUint(n \div 128)

RECURSIVE VarNeg(_, _)
VarNeg(v, groups) ==
  IF groups = 0 THEN << 1 >>
  ELSE << 128 + (v % 128) >> \o VarNeg(v \div 128, groups - 1)

EncodeVarInt(v) == IF v >= 0 THEN VarUint(v) ELSE VarNeg(v, 9)

\* mtime.FromTime(t).Milliseconds(): the time in milliseconds since the epoch.
Milliseconds(t) == t.sec * 1000 + (t.nsec \div 1000000)

\* ptypes.TimestampProto(t): the protobuf timestamp of t, and the error it
\* returns for a time before 0001-01-01 or after 9999-12-31.
TimestampProto(t) == [Seconds |-> t.sec, Nanos |-> t.nsec]
TimestampErr(t) == t.era # "ce"

int64Counter(v) == EncodeVarInt(v)

int64Latest(t, v) == EncodeVarInt(Milliseconds(t)) \o EncodeVarInt(v)

\* int64Distribution as it would be if it wrote the maximum before the minimum.
int64DistributionMaxFirst(count, sum, min, max) ==
  EncodeVarInt(count) \o EncodeVarInt(sum) \o EncodeVarInt(max) \o EncodeVarInt(min)

int64Distribution(count, sum, min, max) ==
  EncodeVarInt(count) \o EncodeVarInt(sum) \o EncodeVarInt(min) \o EncodeVarInt(max)

\* The payload the MonitoringInfo callback of d's kind encodes.
PayloadOf(d) ==
  CASE d.kind = "SumInt64" -> int64Counter(d.v)
    [] d.kind = "DistributionInt64" -> int64Distribution(d.count, d.sum, d.min, d.max)
    [] d.kind = "GaugeInt64" -> int64Latest(d.t, d.v)

\* The Data of the legacy Metrics_User entry the callback of d's kind appends.
LegacyData(d) ==
  CASE d.kind = "SumInt64" -> [CounterData |-> [Value |-> d.v]]
    [] d.kind = "DistributionInt64" ->
         [DistributionData |->
            [Count |-> d.count, Sum |-> d.sum, Min |-> d.min, Max |-> d.max]]
    [] d.kind = "GaugeInt64" ->
         [GaugeData |-> [Value |-> d.v, Timestamp |-> TimestampProto(d.t)]]

toName(l) == [Name |-> l.name, Namespace |-> l.namespace]

(***************************************************************************)
(* Short id tokens.                                                        *)
(***************************************************************************)
Digits36 ==
  << "0", "1", "2", "3", "4", "5", "6", "7", "8", "9", "a", "b", "c", "d", "e",
     "f", "g", "h", "i", "j", "k", "l", "m", "n", "o", "p", "q", "r", "s", "t",
     "u", "v", "w", "x", "y", "z" >>

\* strconv.FormatInt(id, 36) for id >= 0: the digits, most significant first.
RECURSIVE FormatInt36(_)
FormatInt36(id) ==
  IF id < 36 THEN << Digits36[id + 1] >>
  ELSE FormatInt36(id \div 36) \o << Digits36[(id % 36) + 1] >>

(***************************************************************************)
(* State.                                                                  *)
(***************************************************************************)
VARIABLES
  callers,          \* the goroutines of the process that report
  declared,         \* the user metrics the pipeline declares, by plan
  store,            \* plan -> its metric store (labels -> value), None before Execute
  mu,               \* the cache mutex: its holder, or Nil
  labels2ShortIds,  \* shortIDCache.labels2ShortIds
  shortIds2Infos,   \* shortIDCache.shortIds2Infos
  lastShortID,      \* shortIDCache.lastShortID
  pc,               \* caller -> where it is in monitoring() or shortIdsToInfos()
  plan,             \* caller -> the plan of its monitoring() call
  todo,             \* caller -> labels its running ExtractFrom has yet to visit
  transforms,       \* caller -> the legacy tree of its pass
  monitoringInfo,   \* caller -> the MonitoringInfo list of its pass
  payloads,         \* caller -> the payload map of its pass
  call,             \* caller -> the frame of its running MonitoringInfo callback
  progress,         \* caller -> what p.Progress() returned to its pass
  shortids,         \* caller -> the argument of its shortIdsToInfos() call
  ret,              \* caller -> what its call returned
  extracted,        \* caller -> the values the MonitoringInfo pass was handed
  failure,          \* caller -> the error its pass met: Nil, "payload" or "count"
  faults,           \* whether the coder may fail and a gauge may carry a far time
  pure,             \* the call of a pure function under test: function, arguments, result
  issued            \* history: the (labels, urn, short id) of every getShortID return

vars ==
  << callers, declared, store, mu, labels2ShortIds, shortIds2Infos, lastShortID, pc, plan, todo,
     transforms, monitoringInfo, payloads, call, progress, shortids, ret,
     extracted, failure, faults, pure, issued >>

cacheVars == << labels2ShortIds, shortIds2Infos, lastShortID >>
passVars == << transforms, monitoringInfo, payloads >>
pipeVars == << callers, declared, faults, pure >>

\* The empty map (make(map[...])); a nil slice is the empty sequence.
EmptyMap == << >>
NoFrame == [active |-> FALSE]
\* No call has returned to the caller.
NoResult == [returned |-> FALSE]

\* m with m[k] set to v, k being added when it is not yet a key.
MapPut(m, k, v) == [x \in DOMAIN m \cup {k} |-> IF x = k THEN v ELSE m[x]]

\* No pure function is under test.
NoCall == [fn |-> "none"]

\* newShortIDCache: both maps empty, the counter 0; no plan has a store yet and
\* no caller is in a call.
Idle ==
  /\ store = [pl \in Plans |-> None]
  /\ mu = Nil
  /\ labels2ShortIds = EmptyMap
  /\ shortIds2Infos = EmptyMap
  /\ lastShortID = 0
  /\ pc = [p \in Procs |-> "idle"]
  /\ plan = [p \in Procs |-> Nil]
  /\ todo = [p \in Procs |-> {}]
  /\ transforms = [p \in Procs |-> EmptyMap]
  /\ monitoringInfo = [p \in Procs |-> << >>]
  /\ payloads = [p \in Procs |-> EmptyMap]
  /\ call = [p \in Procs |-> NoFrame]
  /\ progress = [p \in Procs |-> None]
  /\ shortids = [p \in Procs |-> << >>]
  /\ ret = [p \in Procs |-> NoResult]
  /\ extracted = [p \in Procs |-> EmptyMap]
  /\ failure = [p \in Procs |-> Nil]
  /\ issued = {}

\* The process as it runs: the coder writes to a buffer in memory, which takes
\* every byte, and a gauge carries the time of its last update.
Init ==
  /\ \E pipe \in Pipelines :
       callers = pipe.callers /\ declared = pipe.declared
  /\ faults = FALSE
  /\ pure = NoCall
  /\ Idle

\* The process with collaborators that fail the way their contracts allow.
InitFaulty ==
  /\ \E pipe \in FaultyPipelines :
       callers = pipe.callers /\ declared = pipe.declared
  /\ faults = TRUE
  /\ pure = NoCall
  /\ Idle

(***************************************************************************)
(* The bundles: the collaborators that own the stores.                     *)
(***************************************************************************)
\* A caller is inside the ExtractFrom(store[pl]) of its MonitoringInfo pass
\* and holds the store's read lock.
Extracting(pl) ==
  \E p \in Procs :
    plan[p] = pl /\ pc[p] \in {"extract", "lookup", "next", "bind", "info", "emit"}

\* Plan.Execute attaches a store to the plan.
PlanExecute(pl) ==
  /\ store[pl] = None
  /\ store' = [store EXCEPT ![pl] = Some(EmptyMap)]
  /\ UNCHANGED << pipeVars, failure, mu, cacheVars, pc, plan, todo, passVars, call,
                  progress, shortids, ret, extracted, issued >>

\* A bundle uses a declared metric: the first use registers it in the store
\* (never while the store is being extracted), a later one adds to a counter.
\* A gauge with a far time is registered between the calls that report the
\* plan, so that the legacy pass is the first to meet it.
MetricUpdate(pl, l, d) ==
  /\ store[pl] # None
  /\ Declare(pl, l, d.kind) \in declared
  /\ (d.kind = "GaugeInt64" /\ TimestampErr(d.t)) =>
       faults /\ \A p \in Procs : plan[p] # pl
  /\ IF l \in DOMAIN store[pl].val
       THEN d.kind = "SumInt64" /\ d.v > store[pl].val[l].v
       ELSE ~Extracting(pl)
  /\ store' = [store EXCEPT ![pl] = Some(MapPut(store[pl].val, l, d))]
  /\ UNCHANGED << pipeVars, failure, mu, cacheVars, pc, plan, todo, passVars, call,
                  progress, shortids, ret, extracted, issued >>

(***************************************************************************)
(* monitoring(p): the legacy pass.                                         *)
(***************************************************************************)
\* The three results of monitoring().
Results(m, infos, pls) == [metrics |-> m, infos |-> infos, payloads |-> pls]

\* A fresh Metrics_PTransform{}.
NewPTransform == [User |-> << >>, ProcessedElements |-> None]

\* getTransform: the tree with an entry for l's transform, made when missing.
getTransform(tr, l) ==
  IF l.transform \in DOMAIN tr THEN tr ELSE MapPut(tr, l.transform, NewPTransform)

\* A legacy callback: append the named raw value to the transform's entry.
LegacyAppend(tr, l, d) ==
  LET t == getTransform(tr, l)
      pb == t[l.transform]
  IN  [t EXCEPT ![l.transform] =
         [pb EXCEPT !.User =
            Append(pb.User, [MetricName |-> toName(l), Data |-> LegacyData(d)])]]

\* The orders in which ranging over a map with the keys S may visit them.
Orders(S) ==
  { f \in [1..Cardinality(S) -> S] : \A i, j \in DOMAIN f : f[i] = f[j] => i = j }

\* The legacy ExtractFrom: the callbacks run over the store m in the order ord.
RECURSIVE LegacyPass(_, _, _)
LegacyPass(tr, ord, m) ==
  IF ord = << >> THEN tr
  ELSE LegacyPass(LegacyAppend(tr, Head(ord), m[Head(ord)]), Tail(ord), m)

\* The legacy GaugeInt64 callback panics with the error of TimestampProto, so
\* the legacy pass panics when the store holds a gauge whose time has none.
LegacyPanics(m) ==
  \E l \in DOMAIN m : m[l].kind = "GaugeInt64" /\ TimestampErr(m[l].t)

\* CallMonitoring as it would be if a nil store were reported like an empty one.
CallMonitoringNilAsEmpty(p, pl) ==
  /\ pc[p] = "idle"
  /\ plan' = [plan EXCEPT ![p] = pl]
  /\ IF store[pl] = None
       THEN /\ ret' = [ret EXCEPT ![p] =
                 Results(Some([Ptransforms |-> EmptyMap]), << >>, Some(EmptyMap))]
            /\ pc' = [pc EXCEPT ![p] = "done"]
            /\ UNCHANGED transforms
       ELSE /\ \E ord \in Orders(DOMAIN store[pl].val) :
                 transforms' = [transforms EXCEPT ![p] =
                   LegacyPass(EmptyMap, ord, store[pl].val)]
            /\ pc' = [pc EXCEPT ![p] = "lock"]
            /\ UNCHANGED ret
  /\ UNCHANGED << pipeVars, failure, store, mu, cacheVars, todo, monitoringInfo,
                  payloads, call, progress, shortids, extracted, issued >>

\* monitoring() up to the mutex: a plan whose Store() is nil returns nil, nil,
\* nil; otherwise the legacy pass builds the tree from the store, or panics
\* and leaves monitoring() with nothing returned.
CallMonitoring(p, pl) ==
  /\ pc[p] = "idle"
  /\ plan' = [plan EXCEPT ![p] = pl]
  /\ IF store[pl] = None
       THEN /\ ret' = [ret EXCEPT ![p] = Results(None, << >>, None)]
            /\ pc' = [pc EXCEPT ![p] = "done"]
            /\ UNCHANGED transforms
       ELSE IF LegacyPanics(store[pl].val)
         THEN /\ pc' = [pc EXCEPT ![p] = "panicked"]
              /\ UNCHANGED << ret, transforms >>
         ELSE /\ \E ord \in Orders(DOMAIN store[pl].val) :
                   transforms' = [transforms EXCEPT ![p] =
                     LegacyPass(EmptyMap, ord, store[pl].val)]
              /\ pc' = [pc EXCEPT ![p] = "lock"]
              /\ UNCHANGED ret
  /\ UNCHANGED << pipeVars, failure, store, mu, cacheVars, todo, monitoringInfo,
                  payloads, call, progress, shortids, extracted, issued >>

(***************************************************************************)
(* monitoring(p): the MonitoringInfo pass, under the cache mutex.          *)
(***************************************************************************)
\* Lock as it would be if monitoring() did not wait for the mutex.
LockNoWait(p) ==
  /\ pc[p] = "lock"
  /\ mu' = p
  /\ todo' = [todo EXCEPT ![p] = DOMAIN store[plan[p]].val]
  /\ pc' = [pc EXCEPT ![p] = "extract"]
  /\ UNCHANGED << pipeVars, failure, store, cacheVars, plan, passVars, call, progress,
                  shortids, ret, extracted, issued >>

\* defaultShortIDCache.mu.Lock(), then the second ExtractFrom begins.
Lock(p) ==
  /\ pc[p] = "lock"
  /\ mu = Nil
  /\ mu' = p
  /\ todo' = [todo EXCEPT ![p] = DOMAIN store[plan[p]].val]
  /\ pc' = [pc EXCEPT ![p] = "extract"]
  /\ UNCHANGED << pipeVars, failure, store, cacheVars, plan, passVars, call, progress, shortids,
                  ret, extracted, issued >>

\* Whether an encoder returns an error: the error of coder.EncodeVarInt.
EncodeErrors == IF faults THEN {FALSE, TRUE} ELSE {FALSE}

\* A MonitoringInfo callback is handed one metric: it encodes the payload,
\* panics with the encoder's error, and otherwise calls getShortID with the
\* labels and the URN of the metric's kind.
ExtractCallback(p) ==
  /\ pc[p] = "extract"
  /\ \E l \in todo[p], err \in EncodeErrors :
       LET d == store[plan[p]].val[l] IN
       /\ call' = [call EXCEPT ![p] =
            [active |-> TRUE, l |-> l, d |-> d,
             payload |-> IF err THEN << >> ELSE PayloadOf(d),
             urn |-> UrnOfKind(d.kind), k |-> shortKey(l, UrnOfKind(d.kind)),
             s |-> << >>]]
       /\ extracted' = [extracted EXCEPT ![p] = MapPut(@, l, d)]
       /\ todo' = [todo EXCEPT ![p] = @ \ {l}]
       /\ failure' = [failure EXCEPT ![p] = IF err THEN "payload" ELSE @]
       /\ pc' = [pc EXCEPT ![p] = IF err THEN "panic" ELSE "lookup"]
  /\ UNCHANGED << pipeVars, store, mu, cacheVars, plan, passVars, progress, shortids,
                  ret, issued >>

\* LookupShortID as it would be if a pass reported known identities no more.
LookupShortIDHitSilent(p) ==
  /\ pc[p] = "lookup"
  /\ IF call[p].k \in DOMAIN labels2ShortIds
       THEN /\ call' = [call EXCEPT ![p] = NoFrame]
            /\ issued' = issued \cup
                 {[l |-> call[p].l, urn |-> call[p].urn,
                   s |-> labels2ShortIds[call[p].k]]}
            /\ pc' = [pc EXCEPT ![p] = "extract"]
       ELSE /\ pc' = [pc EXCEPT ![p] = "next"]
            /\ UNCHANGED << call, issued >>
  /\ UNCHANGED << pipeVars, failure, store, mu, cacheVars, plan, todo, passVars,
                  progress, shortids, ret, extracted >>

\* getShortID, the lookup: a known key returns its short id.
LookupShortID(p) ==
  /\ pc[p] = "lookup"
  /\ IF call[p].k \in DOMAIN labels2ShortIds
       THEN /\ call' = [call EXCEPT ![p].s = labels2ShortIds[call[p].k]]
            /\ issued' = issued \cup
                 {[l |-> call[p].l, urn |-> call[p].urn,
                   s |-> labels2ShortIds[call[p].k]]}
            /\ pc' = [pc EXCEPT ![p] = "emit"]
       ELSE /\ pc' = [pc EXCEPT ![p] = "next"]
            /\ UNCHANGED << call, issued >>
  /\ UNCHANGED << pipeVars, failure, store, mu, cacheVars, plan, todo, passVars, progress,
                  shortids, ret, extracted >>

\* getNextShortID as it would be if it read the counter without adding to it.
getNextShortIDNoAdd(p) ==
  /\ pc[p] = "next"
  /\ lastShortID' = lastShortID
  /\ call' = [call EXCEPT ![p].s = FormatInt36(lastShortID)]
  /\ pc' = [pc EXCEPT ![p] = "bind"]
  /\ UNCHANGED << pipeVars, failure, store, mu, labels2ShortIds, shortIds2Infos, plan,
                  todo, passVars, progress, shortids, ret, extracted, issued >>

\* getNextShortID: the counter is advanced atomically and formatted in base 36.
getNextShortID(p) ==
  /\ pc[p] = "next"
  /\ lastShortID' = lastShortID + 1
  /\ call' = [call EXCEPT ![p].s = FormatInt36(lastShortID + 1)]
  /\ pc' = [pc EXCEPT ![p] = "bind"]
  /\ UNCHANGED << pipeVars, failure, store, mu, labels2ShortIds, shortIds2Infos, plan, todo,
                  passVars, progress, shortids, ret, extracted, issued >>

\* getShortID: c.labels2ShortIds[k] = s.
BindShortID(p) ==
  /\ pc[p] = "bind"
  /\ labels2ShortIds' = MapPut(labels2ShortIds, call[p].k, call[p].s)
  /\ pc' = [pc EXCEPT ![p] = "info"]
  /\ UNCHANGED << pipeVars, failure, store, mu, shortIds2Infos, lastShortID, plan, todo, passVars,
                  call, progress, shortids, ret, extracted, issued >>

\* NewInfo as it would be if every descriptor had the sum-int64 type.
NewInfoSumType(k) ==
  [ Urn |-> UrnString(k.Urn), Type |-> TypeString(typeSumInt64),
    Labels |-> userLabels(k.Labels), Payload |-> << >> ]

\* The descriptor getShortID stores for a new key.
NewInfo(k) ==
  [ Urn |-> UrnString(k.Urn), Type |-> TypeString(urnToType(k.Urn).val),
    Labels |-> userLabels(k.Labels), Payload |-> << >> ]

\* getShortID: c.shortIds2Infos[s] = &MonitoringInfo{...}; return s.
StoreInfo(p) ==
  /\ pc[p] = "info"
  /\ shortIds2Infos' = MapPut(shortIds2Infos, call[p].s, NewInfo(call[p].k))
  /\ issued' = issued \cup
       {[l |-> call[p].l, urn |-> call[p].urn, s |-> call[p].s]}
  /\ pc' = [pc EXCEPT ![p] = "emit"]
  /\ UNCHANGED << pipeVars, failure, store, mu, labels2ShortIds, lastShortID, plan, todo, passVars,
                  call, progress, shortids, ret, extracted >>

\* The record a MonitoringInfo callback appends for a metric of l with value d.
UserInfo(l, d, payload) ==
  [ Urn |-> UrnString(UrnOfKind(d.kind)), Type |-> TypeString(TypeOfKind(d.kind)),
    Labels |-> userLabels(l), Payload |-> payload ]

\* The callback goes on: payloads[s] = payload, and the record is appended.
Emit(p) ==
  /\ pc[p] = "emit"
  /\ payloads' = [payloads EXCEPT ![p] = MapPut(@, call[p].s, call[p].payload)]
  /\ monitoringInfo' = [monitoringInfo EXCEPT ![p] =
       Append(@, UserInfo(call[p].l, call[p].d, call[p].payload))]
  /\ call' = [call EXCEPT ![p] = NoFrame]
  /\ pc' = [pc EXCEPT ![p] = "extract"]
  /\ UNCHANGED << pipeVars, failure, store, mu, cacheVars, plan, todo, transforms, progress,
                  shortids, ret, extracted, issued >>

\* The second ExtractFrom returns.
ExtractDone(p) ==
  /\ pc[p] = "extract"
  /\ todo[p] = {}
  /\ pc' = [pc EXCEPT ![p] = "progress"]
  /\ UNCHANGED << pipeVars, failure, store, mu, cacheVars, plan, todo, passVars, call, progress,
                  shortids, ret, extracted, issued >>

(***************************************************************************)
(* monitoring(p): the progress snapshot and the return.                    *)
(***************************************************************************)
\* The legacy version: transforms[snapshot.ID] is set to a new entry that
\* holds the output element count only.
MergeProgress(tr, snap) ==
  MapPut(tr, snap.ID,
         [User |-> << >>, ProcessedElements |-> Some(snap.Name :> snap.Count)])

\* ElementCountInfo as it would be if the label named the data source.
ElementCountInfoByName(snap) ==
  [ Urn |-> UrnString(urnElementCount), Type |-> TypeString(typeSumInt64),
    Labels |-> [PCOLLECTION |-> snap.Name], Payload |-> int64Counter(snap.Count) ]

\* The monitoring info version of the element count.
ElementCountInfo(snap) ==
  [ Urn |-> UrnString(urnElementCount), Type |-> TypeString(typeSumInt64),
    Labels |-> [PCOLLECTION |-> snap.PID], Payload |-> int64Counter(snap.Count) ]

\* Progress as it would be if the error of the element count were fatal.
ProgressCountFatal(p) ==
  /\ pc[p] = "progress"
  /\ \E snap \in {Some(x) : x \in Snapshots} \cup {None} :
       /\ progress' = [progress EXCEPT ![p] = snap]
       /\ IF snap # None
            THEN /\ transforms' =
                      [transforms EXCEPT ![p] = MergeProgress(@, snap.val)]
                 /\ \E err \in EncodeErrors :
                      IF err
                        THEN /\ failure' = [failure EXCEPT ![p] = "count"]
                             /\ pc' = [pc EXCEPT ![p] = "panic"]
                             /\ UNCHANGED monitoringInfo
                        ELSE /\ monitoringInfo' = [monitoringInfo EXCEPT ![p] =
                                  Append(@, ElementCountInfo(snap.val))]
                             /\ pc' = [pc EXCEPT ![p] = "return"]
                             /\ UNCHANGED failure
            ELSE /\ pc' = [pc EXCEPT ![p] = "return"]
                 /\ UNCHANGED << transforms, monitoringInfo, failure >>
  /\ UNCHANGED << pipeVars, store, mu, cacheVars, plan, todo, payloads, call, shortids,
                  ret, extracted, issued >>

\* p.Progress() answers with a snapshot or with none; the element count
\* record is appended when int64Counter returns no error.
Progress(p) ==
  /\ pc[p] = "progress"
  /\ \E snap \in {Some(x) : x \in Snapshots} \cup {None} :
       /\ progress' = [progress EXCEPT ![p] = snap]
       /\ IF snap # None
            THEN /\ transforms' =
                      [transforms EXCEPT ![p] = MergeProgress(@, snap.val)]
                 /\ \E err \in EncodeErrors :
                      IF err
                        THEN /\ failure' = [failure EXCEPT ![p] = "count"]
                             /\ UNCHANGED monitoringInfo
                        ELSE /\ monitoringInfo' = [monitoringInfo EXCEPT ![p] =
                                  Append(@, ElementCountInfo(snap.val))]
                             /\ UNCHANGED failure
            ELSE UNCHANGED << transforms, monitoringInfo, failure >>
  /\ pc' = [pc EXCEPT ![p] = "return"]
  /\ UNCHANGED << pipeVars, store, mu, cacheVars, plan, todo, payloads, call, shortids,
                  ret, extracted, issued >>

\* Return as it would be if monitoring() recovered from the panic of a
\* callback and returned what the pass had built until then.
ReturnRecovered(p) ==
  /\ pc[p] \in {"return", "panic"}
  /\ ret' = [ret EXCEPT ![p] =
       Results(Some([Ptransforms |-> transforms[p]]), monitoringInfo[p],
               Some(payloads[p]))]
  /\ pc' = [pc EXCEPT ![p] = "done"]
  /\ todo' = [todo EXCEPT ![p] = {}]
  /\ call' = [call EXCEPT ![p] = NoFrame]
  /\ mu' = Nil
  /\ transforms' = [transforms EXCEPT ![p] = EmptyMap]
  /\ monitoringInfo' = [monitoringInfo EXCEPT ![p] = << >>]
  /\ payloads' = [payloads EXCEPT ![p] = EmptyMap]
  /\ UNCHANGED << pipeVars, failure, store, cacheVars, plan, progress, shortids,
                  extracted, issued >>

\* Return as it would be if the Unlock ran on the return only, and not when
\* a panic unwinds monitoring().
ReturnUnlockNotDeferred(p) ==
  /\ pc[p] \in {"return", "panic"}
  /\ IF pc[p] = "return"
       THEN /\ ret' = [ret EXCEPT ![p] =
                 Results(Some([Ptransforms |-> transforms[p]]), monitoringInfo[p],
                         Some(payloads[p]))]
            /\ pc' = [pc EXCEPT ![p] = "done"]
            /\ mu' = Nil
       ELSE /\ pc' = [pc EXCEPT ![p] = "panicked"]
            /\ UNCHANGED << ret, mu >>
  /\ todo' = [todo EXCEPT ![p] = {}]
  /\ call' = [call EXCEPT ![p] = NoFrame]
  /\ transforms' = [transforms EXCEPT ![p] = EmptyMap]
  /\ monitoringInfo' = [monitoringInfo EXCEPT ![p] = << >>]
  /\ payloads' = [payloads EXCEPT ![p] = EmptyMap]
  /\ UNCHANGED << pipeVars, failure, store, cacheVars, plan, progress, shortids,
                  extracted, issued >>

\* monitoring() ends under the mutex and the deferred Unlock runs: it returns
\* &fnpb.Metrics{...}, monitoringInfo, payloads, or the panic of a callback
\* unwinds it and the caller is handed nothing.
Return(p) ==
  /\ pc[p] \in {"return", "panic"}
  /\ IF pc[p] = "return"
       THEN /\ ret' = [ret EXCEPT ![p] =
                 Results(Some([Ptransforms |-> transforms[p]]), monitoringInfo[p],
                         Some(payloads[p]))]
            /\ pc' = [pc EXCEPT ![p] = "done"]
       ELSE /\ pc' = [pc EXCEPT ![p] = "panicked"]
            /\ UNCHANGED ret
  /\ todo' = [todo EXCEPT ![p] = {}]
  /\ call' = [call EXCEPT ![p] = NoFrame]
  /\ mu' = Nil
  /\ transforms' = [transforms EXCEPT ![p] = EmptyMap]
  /\ monitoringInfo' = [monitoringInfo EXCEPT ![p] = << >>]
  /\ payloads' = [payloads EXCEPT ![p] = EmptyMap]
  /\ UNCHANGED << pipeVars, failure, store, cacheVars, plan, progress, shortids,
                  extracted, issued >>

(***************************************************************************)
(* shortIdsToInfos(shortids).                                              *)
(***************************************************************************)
\* The short ids a controller asks about.
ReqTokens == { << "1" >>, << "2" >> }

Requests == UNION { [1..n -> ReqTokens] : n \in 0..MaxReq }

Range(f) == { f[x] : x \in DOMAIN f }

\* InfosOf as it would be if the loop skipped the short ids the cache lacks.
InfosOfKnown(ids, infos) ==
  [s \in Range(ids) \cap DOMAIN infos |-> Some(infos[s])]

\* The loop of shortIdsToInfos: m[s] = c.shortIds2Infos[s], nil for a missing s.
InfosOf(ids, infos) ==
  [s \in Range(ids) |-> IF s \in DOMAIN infos THEN Some(infos[s]) ELSE None]

CallShortIdsToInfos(p, ids) ==
  /\ pc[p] = "idle"
  /\ shortids' = [shortids EXCEPT ![p] = ids]
  /\ pc' = [pc EXCEPT ![p] = "slock"]
  /\ UNCHANGED << pipeVars, failure, store, mu, cacheVars, plan, todo, passVars, call, progress,
                  ret, extracted, issued >>

\* LockInfos as it would be if shortIdsToInfos() read the cache unlocked.
LockInfosNoWait(p) ==
  /\ pc[p] = "slock"
  /\ mu' = mu
  /\ pc' = [pc EXCEPT ![p] = "infos"]
  /\ UNCHANGED << pipeVars, failure, store, cacheVars, plan, todo, passVars, call,
                  progress, shortids, ret, extracted, issued >>

\* c.mu.Lock()
LockInfos(p) ==
  /\ pc[p] = "slock"
  /\ mu = Nil
  /\ mu' = p
  /\ pc' = [pc EXCEPT ![p] = "infos"]
  /\ UNCHANGED << pipeVars, failure, store, cacheVars, plan, todo, passVars, call, progress,
                  shortids, ret, extracted, issued >>

\* LookupInfos as it would be if reading a missing short id added an entry
\* with an empty descriptor for it.
LookupInfosInserting(p) ==
  /\ pc[p] = "infos"
  /\ ret' = [ret EXCEPT ![p] = [m |-> InfosOf(shortids[p], shortIds2Infos)]]
  /\ shortIds2Infos' =
       [s \in DOMAIN shortIds2Infos \cup Range(shortids[p]) |->
          IF s \in DOMAIN shortIds2Infos THEN shortIds2Infos[s]
          ELSE [ Urn |-> "", Type |-> "",
                 Labels |-> [PTRANSFORM |-> "", NAMESPACE |-> "", NAME |-> ""],
                 Payload |-> << >> ]]
  /\ mu' = Nil
  /\ pc' = [pc EXCEPT ![p] = "sdone"]
  /\ UNCHANGED << pipeVars, failure, store, labels2ShortIds, lastShortID, plan,
                  todo, passVars, call, progress, shortids, extracted, issued >>

\* The loop, the return of m and the deferred Unlock.
LookupInfos(p) ==
  /\ pc[p] = "infos"
  /\ ret' = [ret EXCEPT ![p] = [m |-> InfosOf(shortids[p], shortIds2Infos)]]
  /\ mu' = Nil
  /\ pc' = [pc EXCEPT ![p] = "sdone"]
  /\ UNCHANGED << pipeVars, failure, store, cacheVars, plan, todo, passVars, call, progress,
                  shortids, extracted, issued >>

\* The caller takes the results of its call, or recovers from its panic, and
\* is free to call again.
Forget(p) ==
  /\ pc[p] \in {"done", "sdone", "panicked"}
  /\ pc' = [pc EXCEPT ![p] = "idle"]
  /\ plan' = [plan EXCEPT ![p] = Nil]
  /\ progress' = [progress EXCEPT ![p] = None]
  /\ shortids' = [shortids EXCEPT ![p] = << >>]
  /\ ret' = [ret EXCEPT ![p] = NoResult]
  /\ extracted' = [extracted EXCEPT ![p] = EmptyMap]
  /\ failure' = [failure EXCEPT ![p] = Nil]
  /\ UNCHANGED << pipeVars, store, mu, cacheVars, todo, passVars, call, issued >>

(***************************************************************************)
(* The specification.                                                      *)
(***************************************************************************)
Next ==
  \/ \E pl \in Plans : PlanExecute(pl)
  \/ \E pl \in Plans, l \in LabelSet, d \in MetricData : MetricUpdate(pl, l, d)
  \/ \E p \in callers, pl \in Plans : CallMonitoring(p, pl)
  \/ \E p \in callers : Lock(p)
  \/ \E p \in callers : ExtractCallback(p)
  \/ \E p \in callers : LookupShortID(p)
  \/ \E p \in callers : getNextShortID(p)
  \/ \E p \in callers : BindShortID(p)
  \/ \E p \in callers : StoreInfo(p)
  \/ \E p \in callers : Emit(p)
  \/ \E p \in callers : ExtractDone(p)
  \/ \E p \in callers : Progress(p)
  \/ \E p \in callers : Return(p)
  \/ \E p \in callers, ids \in Requests : CallShortIdsToInfos(p, ids)
  \/ \E p \in callers : LockInfos(p)
  \/ \E p \in callers : LookupInfos(p)
  \/ \E p \in callers : Forget(p)

Spec == Init /\ [][Next]_vars

\* The process with failing collaborators.
SpecFaulty == InitFaulty /\ [][Next]_vars

\* The steps of a call that has the mutex, or needs none.
Running(p) ==
  \/ ExtractCallback(p) \/ LookupShortID(p) \/ getNextShortID(p)
  \/ BindShortID(p) \/ StoreInfo(p) \/ Emit(p) \/ ExtractDone(p)
  \/ Progress(p) \/ Return(p) \/ LookupInfos(p)

\* Fair scheduling: a caller that can take a step takes one, and a caller
\* that waits for the mutex gets it when it is free again and again
\* (sync.Mutex hands the mutex to a starving waiter).  Each of these steps
\* moves the caller on, so it is a step that changes pc.
Fairness ==
  \A p \in Procs :
    /\ WF_pc(Running(p))
    /\ SF_pc(Lock(p))
    /\ SF_pc(LockInfos(p))

SpecLive == InitFaulty /\ [][Next]_vars /\ Fairness

(***************************************************************************)
(* The pure functions, called on their own.                                *)
(***************************************************************************)
\* The largest mUrn a call of urnToType is given.
MaxUrn == 40

\* int64 and time.Time arguments of the encoders: one, two and ten byte
\* varints.
Int64Values == {-129, -1, 0, 3, 5, 15, 30, 127, 128, 300}
PureTimes ==
  { [era |-> "ce", sec |-> 0, nsec |-> 999999],
    [era |-> "ce", sec |-> 1, nsec |-> 5000000],
    [era |-> "ce", sec |-> 1600000, nsec |-> 0] }

\* A call that has not been made yet.
PureCall(fn, arg) == [fn |-> fn, arg |-> arg, out |-> None]

InitPure ==
  /\ callers = {} /\ declared = {}
  /\ faults = FALSE
  /\ \/ \E u \in 0..MaxUrn : pure = PureCall("urnToType", << u >>)
     \/ \E v \in Int64Values : pure = PureCall("int64Counter", << v >>)
     \/ \E t \in PureTimes, v \in Int64Values :
          pure = PureCall("int64Latest", << t, v >>)
     \/ \E count, sum, min, max \in Int64Values :
          pure = PureCall("int64Distribution", << count, sum, min, max >>)
  /\ Idle

\* The rest of the state, which a pure function neither reads nor writes.
processVars ==
  << callers, declared, faults, store, mu, cacheVars, pc, plan, todo, passVars,
     call, progress, shortids, ret, extracted, failure, issued >>

CallUrnToType ==
  /\ pure.fn = "urnToType" /\ pure.out = None
  /\ pure' = [pure EXCEPT !.out = Some(urnToType(pure.arg[1]))]
  /\ UNCHANGED processVars

CallInt64Counter ==
  /\ pure.fn = "int64Counter" /\ pure.out = None
  /\ pure' = [pure EXCEPT !.out = Some(int64Counter(pure.arg[1]))]
  /\ UNCHANGED processVars

CallInt64Latest ==
  /\ pure.fn = "int64Latest" /\ pure.out = None
  /\ pure' = [pure EXCEPT !.out = Some(int64Latest(pure.arg[1], pure.arg[2]))]
  /\ UNCHANGED processVars

CallInt64Distribution ==
  /\ pure.fn = "int64Distribution" /\ pure.out = None
  /\ pure' = [pure EXCEPT !.out =
       Some(int64Distribution(pure.arg[1], pure.arg[2], pure.arg[3], pure.arg[4]))]
  /\ UNCHANGED processVars

NextPure ==
  \/ CallUrnToType
  \/ CallInt64Counter
  \/ CallInt64Latest
  \/ CallInt64Distribution

SpecPure == InitPure /\ [][NextPure]_vars

(***************************************************************************)
(* Properties of the short id cache.                                       *)
(***************************************************************************)
\* The short ids of a map's values.
Tokens(m) == { m[k] : k \in DOMAIN m }
IssuedTokens == { e.s : e \in issued }
UserLabelKeys == {"PTRANSFORM", "NAMESPACE", "NAME"}

\* C1: every resolution of one metric identity (labels and URN), by any pass
\* of any caller over any plan, returns the same short id.
C1_SameIdentitySameShortID ==
  \A a, b \in issued : (a.l = b.l /\ a.urn = b.urn) => a.s = b.s

\* Two callers, reporting different plans, hold payload maps that carry the
\* same identity under the same short id.
C1_Witness ==
  \E p, q \in Procs :
    /\ p # q /\ pc[p] = "done" /\ pc[q] = "done" /\ plan[p] # plan[q]
    /\ \E l \in DOMAIN extracted[p] \cap DOMAIN extracted[q] :
         /\ extracted[p][l].kind = extracted[q][l].kind
         /\ \E s \in DOMAIN ret[p].payloads.val \cap DOMAIN ret[q].payloads.val :
              [l |-> l, urn |-> UrnOfKind(extracted[p][l].kind), s |-> s] \in issued

\* C2: the identity to short id map is injective, and no two different
\* identities (labels or URN differ) were ever handed the same short id.
C2_DistinctIdentitiesDistinctShortIDs ==
  /\ \A k1, k2 \in DOMAIN labels2ShortIds :
       k1 # k2 => labels2ShortIds[k1] # labels2ShortIds[k2]
  /\ \A a, b \in issued : (a.l # b.l \/ a.urn # b.urn) => a.s # b.s

\* The cache holds identities that differ in the URN only, in the namespace
\* only and in the name only.
C2_Witness ==
  /\ shortKey(L1, urnUserSumInt64) \in DOMAIN labels2ShortIds
  /\ shortKey(L1, urnUserLatestMsInt64) \in DOMAIN labels2ShortIds
  /\ shortKey(L3, urnUserDistInt64) \in DOMAIN labels2ShortIds
  /\ shortKey(L4, urnUserSumInt64) \in DOMAIN labels2ShortIds

\* A descriptor with its URN, its type and the three user labels.
Populated(info) ==
  /\ \E i \in DOMAIN sUrns : info.Urn = sUrns[i]
  /\ \E i \in DOMAIN sTypes : info.Type = sTypes[i]
  /\ DOMAIN info.Labels = UserLabelKeys

\* The short ids of a returned payload map have populated descriptors.
C3_Returned ==
  \A p \in Procs :
    (pc[p] = "done" /\ ret[p].payloads # None) =>
      \A s \in DOMAIN ret[p].payloads.val :
        s \in DOMAIN shortIds2Infos /\ Populated(shortIds2Infos[s])

\* Whoever may read the cache finds a descriptor for every bound short id.
C3_Observed ==
  (mu = Nil \/ \E p \in Procs : pc[p] = "infos") =>
    \A k \in DOMAIN labels2ShortIds :
      /\ labels2ShortIds[k] \in DOMAIN shortIds2Infos
      /\ Populated(shortIds2Infos[labels2ShortIds[k]])

\* A lookup finds a descriptor for every short id getShortID has returned.
C3_Lookup ==
  \A p \in Procs :
    (pc[p] = "infos" /\ pc'[p] = "sdone") =>
      \A s \in Range(shortids[p]) \cap IssuedTokens : ret'[p].m[s] # None

\* C3: every short id of a returned payload map has its populated descriptor
\* in the cache; a lookup that holds the cache sees a descriptor for every
\* bound short id; and a lookup of a short id that getShortID has returned
\* finds a descriptor.
C3_MetadataAvailable ==
  [](C3_Returned /\ C3_Observed) /\ [][C3_Lookup]_vars

\* A lookup has returned the descriptor of a short id that a returned payload
\* map carries.
C3_Witness ==
  \E p, q \in Procs :
    /\ pc[p] = "done" /\ ret[p].payloads # None /\ pc[q] = "sdone"
    /\ \E s \in DOMAIN ret[p].payloads.val \cap DOMAIN ret[q].m : ret[q].m[s] # None

\* A step keeps every entry of both maps.
C4_Step ==
  /\ \A k \in DOMAIN labels2ShortIds :
       k \in DOMAIN labels2ShortIds' /\ labels2ShortIds'[k] = labels2ShortIds[k]
  /\ \A s \in DOMAIN shortIds2Infos :
       s \in DOMAIN shortIds2Infos' /\ shortIds2Infos'[s] = shortIds2Infos[s]

\* C4: a step never removes or changes a binding: every identity keeps its
\* short id and every short id keeps its URN, type and labels.
C4_BindingsPermanent == [][C4_Step]_vars

\* Two identities are bound, a pass that resolved one has returned and a
\* lookup has run.
C4_Witness ==
  /\ Cardinality(DOMAIN labels2ShortIds) >= 2
  /\ Cardinality(DOMAIN shortIds2Infos) >= 2
  /\ \E p \in Procs : pc[p] = "sdone" /\ shortids[p] # << >>
  /\ \E p \in Procs : pc[p] = "done" /\ extracted[p] # EmptyMap

\* What a step may do to the counter.
C5_Step ==
  /\ lastShortID' >= lastShortID
  /\ \A p \in Procs :
       /\ (pc[p] = "next" /\ pc'[p] = "bind") =>
            /\ lastShortID' = lastShortID + 1
            /\ call'[p].s = FormatInt36(lastShortID')
            /\ \A n \in 1..lastShortID : FormatInt36(n) # call'[p].s
            /\ call'[p].s \notin IssuedTokens \cup Tokens(labels2ShortIds)
       /\ (pc[p] = "lookup" /\ call[p].k \in DOMAIN labels2ShortIds) =>
            /\ pc'[p] \in {"lookup", "emit"}
            /\ lastShortID' = lastShortID
  /\ lastShortID' # lastShortID =>
       \E p \in Procs : pc[p] = "next" /\ pc'[p] = "bind"

\* The bound short ids are counter values; only a missing key allocates.
C5_State ==
  /\ lastShortID = 0 => labels2ShortIds = EmptyMap
  /\ Tokens(labels2ShortIds) \subseteq { FormatInt36(n) : n \in 1..lastShortID }
  /\ \A p \in Procs : pc[p] = "next" => call[p].k \notin DOMAIN labels2ShortIds

\* C5: the counter never decreases; an allocation takes the counter value one
\* above the last, greater than every value handed out, the first being 1,
\* and the short id is that value in base 36; only the resolution of an
\* identity the cache lacks allocates; a cache hit leaves the counter alone;
\* the bound short ids are the values 1..lastShortID of different keys.
C5_CounterMonotonic == []C5_State /\ [][C5_Step]_vars

\* Two allocations were made and a later pass resolved a known identity.
C5_Witness ==
  /\ lastShortID >= 2
  /\ \E p \in Procs :
       /\ pc[p] = "emit"
       /\ call[p].s = FormatInt36(1)
       /\ Cardinality(DOMAIN labels2ShortIds) = lastShortID

\* The lookup step returns the map of the request, read from the cache.
C6_Step ==
  \A p \in Procs :
    pc[p] = "infos" =>
      /\ pc'[p] \in {"infos", "sdone"}
      /\ pc'[p] = "sdone" =>
           /\ DOMAIN ret'[p].m = { shortids[p][i] : i \in 1..Len(shortids[p]) }
           /\ \A s \in DOMAIN ret'[p].m :
                IF s \in DOMAIN shortIds2Infos
                  THEN ret'[p].m[s] = Some(shortIds2Infos[s])
                  ELSE ret'[p].m[s] = None

\* A returned map has an entry for every requested short id and no other.
C6_State ==
  \A p \in Procs :
    pc[p] = "sdone" =>
      /\ \A i \in 1..Len(shortids[p]) : shortids[p][i] \in DOMAIN ret[p].m
      /\ Cardinality(DOMAIN ret[p].m) <= Len(shortids[p])

\* C6: a lookup always returns, with one entry for each requested short id:
\* the cached descriptor for a known one, nil for an unknown one.
C6_LookupTotal == []C6_State /\ [][C6_Step]_vars

\* A lookup of a known and an unknown short id has returned.
C6_Witness ==
  \E p \in Procs :
    /\ pc[p] = "sdone"
    /\ \E s, t \in DOMAIN ret[p].m : ret[p].m[s] # None /\ ret[p].m[t] = None

\* A lookup of no short id has returned the empty map.
C6_WitnessEmpty ==
  \E p \in Procs : pc[p] = "sdone" /\ shortids[p] = << >> /\ ret[p].m = EmptyMap

(***************************************************************************)
(* Properties of a monitoring() pass.                                      *)
(***************************************************************************)
\* The wire strings and the payload bytes expected for the metrics of the model.
ExpectedUrn(kind) ==
  CASE kind = "SumInt64" -> "beam:metric:user:sum_int64:v1"
    [] kind = "DistributionInt64" -> "beam:metric:user:distribution_int64:v1"
    [] kind = "GaugeInt64" -> "beam:metric:user:latest_int64:v1"

ExpectedType(kind) ==
  CASE kind = "SumInt64" -> "beam:metrics:sum_int64:v1"
    [] kind = "DistributionInt64" -> "beam:metrics:distribution_int64:v1"
    [] kind = "GaugeInt64" -> "beam:metrics:latest_int64:v1"

\* varint(7) = 07; varint(300) = AC 02; varint(1005) = ED 07.
ExpectedPayload(d) ==
  CASE d.kind = "SumInt64" -> IF d.v = 7 THEN << 7 >> ELSE << 172, 2 >>
    [] d.kind = "DistributionInt64" -> << 3, 30, 5, 15 >>
    [] d.kind = "GaugeInt64" -> << 237, 7, 7 >>

ExpectedInfo(l, d) ==
  [ Urn |-> ExpectedUrn(d.kind), Type |-> ExpectedType(d.kind),
    Labels |-> [PTRANSFORM |-> l.transform, NAMESPACE |-> l.namespace,
                NAME |-> l.name],
    Payload |-> ExpectedPayload(d) ]

\* A caller's monitoring() call has returned the results of a pass.
Reported(p) == pc[p] = "done" /\ ret[p].metrics # None

\* The extraction covers the store; the results carry every extracted metric.
C7_State ==
  \A p \in Procs :
    /\ (pc[p] = "extract" /\ todo[p] = {}) =>
         DOMAIN extracted[p] = DOMAIN store[plan[p]].val
    /\ Reported(p) =>
         \A l \in DOMAIN extracted[p] :
           LET d == extracted[p][l]
               k == [Labels |-> l, Urn |-> UrnOfKind(d.kind)]
           IN  /\ \E i \in DOMAIN ret[p].infos : ret[p].infos[i] = ExpectedInfo(l, d)
               /\ k \in DOMAIN labels2ShortIds
               /\ labels2ShortIds[k] \in DOMAIN ret[p].payloads.val
               /\ ret[p].payloads.val[labels2ShortIds[k]] = ExpectedPayload(d)

\* A callback is handed the value the store holds at that moment.
C7_Step ==
  \A p \in Procs :
    (pc[p] = "extract" /\ pc'[p] = "lookup") =>
      /\ call'[p].d = store[plan[p]].val[call'[p].l]
      /\ extracted'[p][call'[p].l] = call'[p].d
      /\ call'[p].payload = ExpectedPayload(call'[p].d)

\* C7: a pass visits every user metric of the store and hands the callback
\* its current value; the returned list holds the metric's record (URN, type,
\* labels, payload of that value) and the payload map holds the same payload
\* under the identity's short id, on every pass.
C7_MetadataComplete == []C7_State /\ [][C7_Step]_vars

\* Two passes over one plan have returned: both carry the counter of L1 under
\* the same short id, the earlier with the payload of 7, the later of 300.
C7_Witness ==
  \E p, q \in Procs :
    /\ Reported(p) /\ Reported(q) /\ plan[p] = plan[q]
    /\ L1 \in DOMAIN extracted[p] /\ extracted[p][L1].kind = "SumInt64"
    /\ L1 \in DOMAIN extracted[q] /\ extracted[q][L1].kind = "SumInt64"
    /\ \E s \in DOMAIN ret[p].payloads.val \cap DOMAIN ret[q].payloads.val :
         /\ ret[p].payloads.val[s] = << 7 >>
         /\ ret[q].payloads.val[s] = << 172, 2 >>

\* The progress step merges into the tree.
C8_Step ==
  \A p \in Procs :
    (pc[p] = "progress" /\ pc'[p] = "return" /\ progress'[p] # None) =>
      LET snap == progress'[p].val IN
      /\ snap.ID \in DOMAIN transforms'[p]
      /\ transforms'[p][snap.ID].ProcessedElements = Some(snap.Name :> snap.Count)
      /\ snap.ID \in DOMAIN transforms[p] =>
           transforms'[p][snap.ID].User = transforms[p][snap.ID].User
      /\ \A t \in DOMAIN transforms[p] \ {snap.ID} :
           t \in DOMAIN transforms'[p] /\ transforms'[p][t] = transforms[p][t]

\* C8: the step that takes the progress snapshot merges the element count
\* into the legacy tree: the snapshot's transform carries
\* processedElements[name] = count and keeps the user entries the legacy pass
\* recorded for it, and the other transforms are unchanged.
C8_ProgressMerged == [][C8_Step]_vars

\* The element count record expected for a snapshot.
ExpectedElementCount(snap) ==
  [ Urn |-> "beam:metric:element_count:v1", Type |-> "beam:metrics:sum_int64:v1",
    Labels |-> [PCOLLECTION |-> snap.PID], Payload |-> << snap.Count >> ]

\* The progress step appends the element count and nothing else.
C9_Step ==
  \A p \in Procs :
    (pc[p] = "progress" /\ pc'[p] = "return") =>
      /\ payloads'[p] = payloads[p]
      /\ UNCHANGED cacheVars
      /\ IF progress'[p] # None
           THEN monitoringInfo'[p] =
                  monitoringInfo[p] \o << ExpectedElementCount(progress'[p].val) >>
           ELSE monitoringInfo'[p] = monitoringInfo[p] /\ transforms'[p] = transforms[p]

\* The returned list holds the element count last, once, or not at all.
C9_State ==
  \A p \in Procs :
    Reported(p) =>
      LET infos == ret[p].infos
          tree == ret[p].metrics.val.Ptransforms
          counts == { i \in DOMAIN infos : infos[i].Urn = "beam:metric:element_count:v1" }
      IN  /\ Cardinality(DOMAIN ret[p].payloads.val) = Cardinality(DOMAIN extracted[p])
          /\ IF progress[p] # None
               THEN /\ counts = {Len(infos)}
                    /\ Len(infos) = Cardinality(DOMAIN extracted[p]) + 1
               ELSE /\ counts = {}
                    /\ \A t \in DOMAIN tree : tree[t].ProcessedElements = None

\* C9: with a progress snapshot the pass appends one record, the element
\* count (sum-int64 type, the label PCOLLECTION with the collection id, the
\* payload of the count), and neither the payload map nor the cache changes;
\* without a snapshot nothing is appended and the tree does not change.
C9_ElementCountRecord == []C9_State /\ [][C9_Step]_vars

\* A pass over a store with a user metric has returned with the element count.
C9_Witness ==
  \E p \in Procs :
    /\ Reported(p) /\ progress[p] # None /\ extracted[p] # EmptyMap
    /\ ret[p].infos[Len(ret[p].infos)].Labels = [PCOLLECTION |-> "pc1"]

\* C10 as stated: a pass over an absent or an empty store returns the three
\* outputs absent or empty.
C10_AbsentOrEmptyStoreEmptyResults ==
  \A p \in Procs :
    (pc[p] = "done" /\ extracted[p] = EmptyMap) =>
      /\ ret[p].metrics = None \/ ret[p].metrics.val.Ptransforms = EmptyMap
      /\ ret[p].infos = << >>
      /\ ret[p].payloads = None \/ ret[p].payloads.val = EmptyMap

\* The entering step on a nil store; the steps of a pass that extracted nothing.
C10_Step ==
  \A p \in Procs :
    /\ (pc[p] = "idle" /\ pc'[p] \in {"lock", "done"}) =>
         IF store[plan'[p]] = None
           THEN /\ pc'[p] = "done"
                /\ ret'[p] = [metrics |-> None, infos |-> << >>, payloads |-> None]
                /\ mu' = mu
           ELSE pc'[p] = "lock"
    /\ (pc[p] # pc'[p] /\ extracted'[p] = EmptyMap) => UNCHANGED cacheVars

\* The results of a pass over an empty store; only a visited metric resolves.
C10_State ==
  \A p \in Procs :
    /\ (Reported(p) /\ extracted[p] = EmptyMap) =>
         /\ ret[p].payloads = Some(EmptyMap)
         /\ progress[p] = None =>
              /\ ret[p].metrics.val.Ptransforms = EmptyMap
              /\ ret[p].infos = << >>
    /\ pc[p] \in {"lookup", "next", "bind", "info", "emit"} =>
         extracted[p] # EmptyMap

\* C10, amended: an absent store returns nil, nil, nil in the entering step,
\* without the mutex; a pass over an empty store returns an empty payload map
\* and, when no progress snapshot is supplied, an empty tree and an empty
\* list; no step of a pass that extracted nothing changes the cache.
C10_AbsentStore == []C10_State /\ [][C10_Step]_vars

\* One caller was answered nil, nil, nil for a plan without a store; another
\* reported a plan with an empty store and no progress.
C10_Witness ==
  \E p, q \in Procs :
    /\ pc[p] = "done" /\ ret[p] = [metrics |-> None, infos |-> << >>, payloads |-> None]
    /\ Reported(q) /\ extracted[q] = EmptyMap /\ progress[q] = None

(***************************************************************************)
(* Failures of the collaborators.                                          *)
(***************************************************************************)
\* The progress step whose int64Counter returned an error goes on to the
\* return: the tree has the element count, the list and the map are as they
\* were.
C11_Step ==
  \A p \in Procs :
    (pc[p] = "progress" /\ pc'[p] # "progress" /\ failure'[p] = "count") =>
      /\ pc'[p] = "return"
      /\ progress'[p] # None
      /\ monitoringInfo'[p] = monitoringInfo[p]
      /\ payloads'[p] = payloads[p]
      /\ LET snap == progress'[p].val IN
         /\ snap.ID \in DOMAIN transforms'[p]
         /\ transforms'[p][snap.ID].ProcessedElements = Some(snap.Name :> snap.Count)
         /\ \A t \in DOMAIN transforms[p] \ {snap.ID} :
              t \in DOMAIN transforms'[p] /\ transforms'[p][t] = transforms[p][t]

\* The results of such a pass: the record and the payload of every user
\* metric, the tree with the element count, and no element count record.
C11_State ==
  \A p \in Procs :
    (pc[p] = "done" /\ failure[p] = "count") =>
      LET infos == ret[p].infos
          tree == ret[p].metrics.val.Ptransforms
          snap == progress[p].val
      IN  /\ ret[p].metrics # None /\ ret[p].payloads # None
          /\ snap.ID \in DOMAIN tree
          /\ tree[snap.ID].ProcessedElements = Some(snap.Name :> snap.Count)
          /\ Len(infos) = Cardinality(DOMAIN extracted[p])
          /\ \A i \in DOMAIN infos : infos[i].Urn # "beam:metric:element_count:v1"
          /\ \A l \in DOMAIN extracted[p] :
               LET d == extracted[p][l]
                   k == [Labels |-> l, Urn |-> UrnOfKind(d.kind)]
               IN  /\ \E i \in DOMAIN infos : infos[i] = ExpectedInfo(l, d)
                   /\ ret[p].payloads.val[labels2ShortIds[k]] = ExpectedPayload(d)
          /\ Cardinality(DOMAIN ret[p].payloads.val) = Cardinality(DOMAIN extracted[p])

\* C11: when the encoding of the progress element count fails, the pass does
\* not panic: it leaves out the element count record alone and returns the
\* legacy tree with the processed-elements entry, the record of every user
\* metric and the whole payload map.
C11_CountFailureSkipsRecord == []C11_State /\ [][C11_Step]_vars

\* A pass over a store with a user metric has returned after the encoding of
\* its element count failed.
C11_Witness ==
  \E p \in Procs :
    /\ pc[p] = "done" /\ failure[p] = "count" /\ extracted[p] # EmptyMap
    /\ Len(ret[p].infos) = 1

\* The store holds a gauge whose time has no protobuf timestamp.
HasFarGauge(m) ==
  \E l \in DOMAIN m : m[l].kind = "GaugeInt64" /\ m[l].t.era # "ce"

\* A call that has ended returned all of its results or none of them.
C16_State ==
  \A p \in Procs :
    /\ pc[p] \in {"panic", "panicked"} => ret[p] = NoResult
    /\ pc[p] = "panic" => failure[p] = "payload"
    /\ pc[p] = "done" =>
         /\ failure[p] # "payload"
         /\ \/ ret[p] = [metrics |-> None, infos |-> << >>, payloads |-> None]
            \/ /\ ret[p].metrics # None /\ ret[p].payloads # None
               /\ \A l \in DOMAIN extracted[p] :
                    LET d == extracted[p][l]
                        k == [Labels |-> l, Urn |-> UrnOfKind(d.kind)]
                    IN  /\ \E i \in DOMAIN ret[p].infos :
                             ret[p].infos[i] = ExpectedInfo(l, d)
                        /\ labels2ShortIds[k] \in DOMAIN ret[p].payloads.val

\* A failed payload encoding and a gauge without a timestamp end the call in
\* a panic.
C16_Step ==
  \A p \in Procs :
    /\ (pc[p] = "extract" /\ failure'[p] = "payload") => pc'[p] = "panic"
    /\ (pc[p] = "panic" /\ pc'[p] # "panic") =>
         pc'[p] = "panicked" /\ ret'[p] = NoResult /\ mu' = Nil
    /\ (pc[p] = "idle" /\ pc'[p] \notin {"idle", "slock"}
          /\ store[plan'[p]] # None /\ HasFarGauge(store[plan'[p]].val)) =>
         /\ pc'[p] = "panicked" /\ ret'[p] = NoResult
         /\ mu' = mu /\ UNCHANGED cacheVars
    /\ (pc[p] # "panicked" /\ pc'[p] = "panicked") =>
         \/ pc[p] = "panic"
         \/ pc[p] = "idle" /\ HasFarGauge(store[plan'[p]].val)

\* C16: a pass returns the tree, the list and the payload map together, or
\* it panics and returns nothing: a payload encoding that fails in the
\* MonitoringInfo pass and a gauge whose time has no timestamp in the legacy
\* pass end the call in a panic, and the caller is handed no part of the
\* results.
C16_AllOrNothing == []C16_State /\ [][C16_Step]_vars

\* One call panicked on a payload in the MonitoringInfo pass, another on the
\* gauge of plan B in the legacy pass.
C16_Witness ==
  \E p, q \in Procs :
    /\ pc[p] = "panicked" /\ failure[p] = "payload" /\ extracted[p] # EmptyMap
    /\ pc[q] = "panicked" /\ failure[q] = Nil /\ plan[q] = "B"

\* A caller is in a call, and its call has ended.
InCall(p) == pc[p] \notin {"idle", "done", "sdone", "panicked"}
Ended(p) == pc[p] \in {"done", "sdone", "panicked"}

\* The mutex is held by a caller that is between its Lock and its Unlock: a
\* call that has ended holds it no more, and a caller that waits for it does
\* not hold it.
C17_State ==
  \A p \in Procs :
    /\ (Ended(p) \/ pc[p] = "idle") => mu # p
    /\ pc[p] \in {"lock", "slock"} => mu # p

\* C17: under fair scheduling every monitoring() pass and every
\* shortIdsToInfos() call that has started ends (by a return or by a panic),
\* whatever the other callers do: the holder of the mutex releases it, on
\* its return and when a callback panics, and no caller waits for a mutex it
\* holds.
C17_EveryCallEnds ==
  /\ []C17_State
  /\ \A p \in Procs : InCall(p) ~> Ended(p)

\* A caller waits for the mutex with a lookup while the call that holds it
\* is panicking.
C17_Witness ==
  \E p, q \in Procs :
    pc[p] = "panic" /\ mu = p /\ pc[q] \in {"lock", "slock"}

(***************************************************************************)
(* Properties of the registry and of the payload codec.                    *)
(***************************************************************************)
\* The URNs the registry knows: user sum-int64 to progress-completed, and the
\* test sentinel.
SupportedUrns == 0..18

\* A call of urnToType has ended.
UrnCalled == pure.fn = "urnToType" /\ pure.out # None

\* C12: urnToType returns one wire type for every supported URN, and for any
\* other URN it panics with the protocol violation message that names the URN
\* (not with the runtime error of indexing sUrns with that URN).
C12_UrnToTypeTotal ==
  UrnCalled =>
    LET u == pure.arg[1]
        r == pure.out.val
    IN  IF u \in SupportedUrns
          THEN ~r.panics /\ r.val \in 0..12
          ELSE r.panics /\ r.val[1] = "metric urn without specified type"

\* Reading varints back.  The groups of b[i..j], least significant first, as
\* a number; for a ten byte varint, the number whose complement they are.
RECURSIVE Groups(_, _, _)
Groups(b, i, j) ==
  IF i > j THEN 0 ELSE (b[i] % 128) + 128 * Groups(b, i + 1, j)

RECURSIVE Complement(_, _, _)
Complement(b, i, j) ==
  IF i > j THEN 0 ELSE (127 - (b[i] % 128)) + 128 * Complement(b, i + 1, j)

\* The varints of b from position i on: a varint ends at its first byte
\* below 128.
RECURSIVE ReadVarInts(_, _)
ReadVarInts(b, i) ==
  IF i > Len(b) THEN << >>
  ELSE LET j == CHOOSE x \in i..Len(b) :
                  b[x] < 128 /\ \A y \in i..(x - 1) : b[y] >= 128
           v == IF j - i = 9 THEN -1 - Complement(b, i, j - 1)
                ELSE Groups(b, i, j)
       IN  << v >> \o ReadVarInts(b, j + 1)

\* The bytes of one varint, written out for some values.
VarintBytes(v) ==
  CASE v \in 0..127 -> << v >>
    [] v = 128 -> << 128, 1 >>
    [] v = 300 -> << 172, 2 >>
    [] v = 1005 -> << 237, 7 >>
    [] v = 1600000000 -> << 128, 160, 248, 250, 5 >>
    [] v = -1 -> << 255, 255, 255, 255, 255, 255, 255, 255, 255, 1 >>
    [] v = -129 -> << 255, 254, 255, 255, 255, 255, 255, 255, 255, 1 >>

\* The fields an encoder is to write, in order.
FieldsOf(c) ==
  CASE c.fn = "int64Counter" -> << c.arg[1] >>
    [] c.fn = "int64Latest" ->
         << c.arg[1].sec * 1000 + (c.arg[1].nsec \div 1000000), c.arg[2] >>
    [] c.fn = "int64Distribution" -> << c.arg[1], c.arg[2], c.arg[3], c.arg[4] >>

RECURSIVE Concat(_)
Concat(seqs) == IF seqs = << >> THEN << >> ELSE Head(seqs) \o Concat(Tail(seqs))

\* C13: the output of an encoder is the varints of its fields, one after the
\* other in the fixed order (the value; the milliseconds, then the value; the
\* count, the sum, the minimum, the maximum), and reading the varints back
\* in that order gives the fields.
C13_EncodersConcatenate ==
  (pure.fn \in {"int64Counter", "int64Latest", "int64Distribution"}
     /\ pure.out # None) =>
    LET fields == FieldsOf(pure) IN
    /\ pure.out.val = Concat([i \in DOMAIN fields |-> VarintBytes(fields[i])])
    /\ ReadVarInts(pure.out.val, 1) = fields

\* A distribution with one, two and ten byte fields has been encoded.
C13_Witness ==
  /\ pure.fn = "int64Distribution" /\ pure.arg = << -1, 300, -129, 128 >>
  /\ pure.out # None /\ Len(pure.out.val) = 24

(***************************************************************************)
(* Properties of the mutex.                                                *)
(***************************************************************************)
\* Where a caller is between mu.Lock() and the deferred mu.Unlock(): in the
\* MonitoringInfo pass of monitoring(), or in the loop of shortIdsToInfos().
InPass == {"extract", "lookup", "next", "bind", "info", "emit", "progress",
           "return", "panic"}
InLookup == {"infos"}

\* The holder of the mutex is the one caller between Lock and Unlock.
C14_State ==
  /\ \A p \in Procs : pc[p] \in InPass \cup InLookup <=> mu = p
  /\ \A p, q \in Procs :
       (p # q /\ pc[p] \in InPass \cup InLookup) => pc[q] \notin InPass \cup InLookup

\* The maps and the counter are read and written by the holder alone, and the
\* holder keeps the mutex until its function ends.
C14_Step ==
  /\ cacheVars' # cacheVars =>
       \E p \in Procs :
         /\ mu = p /\ mu' = p
         /\ pc[p] \in {"next", "bind", "info"} /\ pc'[p] # pc[p]
  /\ \A p \in Procs :
       /\ (pc[p] \in {"lookup", "infos"} /\ pc'[p] # pc[p]) => mu = p
       /\ (mu = p /\ mu' # p) =>
            /\ mu' = Nil
            /\ pc[p] \in {"return", "panic", "infos"}
            /\ pc'[p] \in {"done", "panicked", "sdone"}
       /\ (mu # p /\ mu' = p) => mu = Nil /\ pc[p] \in {"lock", "slock"}

\* C14: the two maps and the counter are read and written only by the caller
\* that holds the mutex, a pass holds it from its Lock to its return, and so
\* no two passes, and no pass and lookup, are in the cache together: a lookup
\* sees the cache as it is between passes.
C14_MutualExclusion == []C14_State /\ [][C14_Step]_vars

\* A pass has bound a new short id and not yet stored its descriptor, while
\* the other caller waits for the mutex with a lookup.
C14_Witness ==
  \E p, q \in Procs :
    /\ pc[p] = "info" /\ pc[q] = "slock" /\ mu = p
    /\ Tokens(labels2ShortIds) # DOMAIN shortIds2Infos

(***************************************************************************)
(* Properties of the wire types.                                           *)
(***************************************************************************)
\* The wire type of the same kind and variant as each user URN.
UserTypeOf(urn) ==
  CASE urn = "beam:metric:user:sum_int64:v1" -> "beam:metrics:sum_int64:v1"
    [] urn = "beam:metric:user:sum_double:v1" -> "beam:metrics:sum_double:v1"
    [] urn = "beam:metric:user:distribution_int64:v1" ->
         "beam:metrics:distribution_int64:v1"
    [] urn = "beam:metric:user:distribution_double:v1" ->
         "beam:metrics:distribution_double:v1"
    [] urn = "beam:metric:user:latest_int64:v1" -> "beam:metrics:latest_int64:v1"
    [] urn = "beam:metric:user:latest_double:v1" -> "beam:metrics:latest_double:v1"
    [] urn = "beam:metric:user:top_n_int64:v1" -> "beam:metrics:top_n_int64:v1"
    [] urn = "beam:metric:user:top_n_double:v1" -> "beam:metrics:top_n_double:v1"
    [] urn = "beam:metric:user:bottom_n_int64:v1" -> "beam:metrics:bottom_n_int64:v1"
    [] urn = "beam:metric:user:bottom_n_double:v1" ->
         "beam:metrics:bottom_n_double:v1"

\* C15: urnToType maps each of the ten user URNs to the wire type of its own
\* kind and variant; the bottom-N int64 URN has the bottom-N int64 type, not
\* the sum-int64 type.
C15_UserUrnsOwnType ==
  (UrnCalled /\ pure.arg[1] \in urnUserSumInt64..urnUserBottomNFloat64) =>
    /\ ~pure.out.val.panics
    /\ TypeString(pure.out.val.val) = UserTypeOf(UrnString(pure.arg[1]))

(***************************************************************************)
(* Properties of the cache between passes.                                 *)
(***************************************************************************)
\* C18: whenever the mutex is free, the short ids bound in labels2ShortIds
\* are the keys of shortIds2Infos, and each of the two maps has as many
\* entries as the counter says.
C18_CacheConsistentWhenFree ==
  mu = Nil =>
    /\ Tokens(labels2ShortIds) = DOMAIN shortIds2Infos
    /\ Cardinality(DOMAIN labels2ShortIds) = lastShortID
    /\ Cardinality(DOMAIN shortIds2Infos) = lastShortID

\* The mutex is free after passes that bound two short ids.
C18_Witness ==
  mu = Nil /\ lastShortID = 2 /\ Cardinality(DOMAIN shortIds2Infos) = 2

\* The record is a user metric's: its labels are those of an identity.
UserRecord(info) == DOMAIN info.Labels = UserLabelKeys

\* The callback appends a record that agrees with the descriptor the cache
\* holds under the short id it resolved.
C19_Step ==
  \A p \in Procs :
    (pc[p] = "emit" /\ pc'[p] = "extract") =>
      LET rec == monitoringInfo'[p][Len(monitoringInfo'[p])]
          s == call[p].s
      IN  /\ Len(monitoringInfo'[p]) = Len(monitoringInfo[p]) + 1
          /\ s \in DOMAIN shortIds2Infos
          /\ labels2ShortIds[[Labels |-> call[p].l, Urn |-> call[p].urn]] = s
          /\ shortIds2Infos[s].Urn = rec.Urn
          /\ shortIds2Infos[s].Type = rec.Type
          /\ shortIds2Infos[s].Labels = rec.Labels
          /\ shortIds2Infos[s].Payload = << >>
          /\ rec.Type = sTypes[urnToType(call[p].urn).val + 1]

\* Every returned user record agrees with the descriptor of its identity,
\* and no descriptor of the cache carries a payload.
C19_State ==
  /\ \A s \in DOMAIN shortIds2Infos : shortIds2Infos[s].Payload = << >>
  /\ \A p \in Procs :
       Reported(p) =>
         \A i \in DOMAIN ret[p].infos :
           LET rec == ret[p].infos[i] IN
           UserRecord(rec) =>
             \E k \in DOMAIN labels2ShortIds :
               LET info == shortIds2Infos[labels2ShortIds[k]] IN
               /\ userLabels(k.Labels) = rec.Labels
               /\ sUrns[k.Urn + 1] = rec.Urn
               /\ info.Urn = rec.Urn /\ info.Type = rec.Type
               /\ info.Labels = rec.Labels
               /\ labels2ShortIds[k] \in DOMAIN ret[p].payloads.val

\* C19: for every user metric record monitoring() emits, the descriptor the
\* cache holds under the short id of that identity has the record's URN,
\* wire type and labels (the type written into the record is urnToType of
\* the URN), and the cached descriptor carries no payload.
C19_DescriptorsAgree == []C19_State /\ [][C19_Step]_vars

\* A pass has returned the records of a counter and of a distribution.
C19_Witness ==
  \E p \in Procs :
    /\ Reported(p)
    /\ \E i, j \in DOMAIN ret[p].infos :
         /\ ret[p].infos[i].Type = "beam:metrics:sum_int64:v1"
         /\ UserRecord(ret[p].infos[i])
         /\ ret[p].infos[j].Type = "beam:metrics:distribution_int64:v1"
         /\ ret[p].infos[j].Payload # << >>

\* A lookup changes neither map nor the counter, and a short id it found
\* missing is still missing; only a pass adds a short id.
C20_Step ==
  /\ \A p \in Procs :
       (pc[p] \in {"idle", "slock", "infos"} /\ pc'[p] \in {"slock", "infos", "sdone"}
          /\ pc'[p] # pc[p]) =>
         /\ UNCHANGED cacheVars
         /\ pc'[p] = "sdone" =>
              \A s \in Range(shortids[p]) :
                s \notin DOMAIN shortIds2Infos =>
                  /\ ret'[p].m[s] = None
                  /\ s \notin DOMAIN shortIds2Infos'
                  /\ s \notin Tokens(labels2ShortIds')
  /\ DOMAIN shortIds2Infos' # DOMAIN shortIds2Infos =>
       \E q \in Procs : pc[q] = "info" /\ pc'[q] = "emit" /\ mu = q

\* C20: shortIdsToInfos() leaves the cache as it is, for known and for
\* unknown short ids: looking up an unknown short id adds no entry to either
\* map and does not advance the counter, so the short id stays unknown to
\* later lookups until a pass allocates it.
C20_LookupReadOnly == [][C20_Step]_vars

\* Two lookups, one after the other, were both told that "2" is unknown, the
\* first time next to the known "1".
C20_Witness ==
  \E p, q \in Procs :
    /\ p # q /\ pc[p] = "sdone" /\ pc[q] = "sdone"
    /\ DOMAIN ret[p].m = { << "1" >>, << "2" >> }
    /\ ret[p].m[<< "1" >>] # None /\ ret[p].m[<< "2" >>] = None
    /\ << "2" >> \in DOMAIN ret[q].m /\ ret[q].m[<< "2" >>] = None
    /\ DOMAIN shortIds2Infos = { << "1" >> }

====
